---- MODULE Spec2Model ----
(***************************************************************************)
(* The ring buffers of the bufferring crate: the masking, sparse-masking   *)
(* and subtracting engines over a storage of possibly-uninitialised slots. *)
(* One buffer is constructed in Init (its engine, its capacity and whether *)
(* its element type has drop glue are chosen there) and is then driven by  *)
(* enqueue and dequeue calls.                                              *)
(***************************************************************************)
EXTENDS Integers, Sequences, FiniteSets, TLC

\* Largest storage capacity explored.
MaxCap == 4
\* Items handed to enqueue are 1..MaxItem.
MaxItem == 2
\* Longest input sequence of the wrap-around harness (the test uses 40).
MaxInputs == 40
\* Width of usize in bits: the values of a usize are 0 .. 2^WordBits - 1.
WordBits == 4
\* Largest size of an element in bytes; 0 is a zero-sized type.
MaxSize == 2

VARIABLES
    engine,     \* "masking" | "sparse" | "subtracting": the type of the buffer
    needsDrop,  \* whether the element type S::Item has drop glue
    rb,         \* the ring buffer: its fields, its storage included
    call,       \* the last call: operation, argument, result, what it touched
    fifo,       \* history: the items held, oldest first
    run,        \* history: the items enqueued since the buffer was last empty
    test,       \* the wrap_many_times harness: its position and its locals
    peers,      \* buffers of the other engines given the same calls as rb
    heap        \* the allocator: how many blocks were handed out and freed

vars == <<engine, needsDrop, rb, call, fifo, run, test, peers, heap>>

Items == 1 .. MaxItem
\* What a read of an uninitialised slot can yield: any bit pattern.
Bits == 0 .. MaxItem
\* The outcomes of undefined behaviour inside one call: the bits an
\* uninitialised read yields, and whether dropping garbage aborts the process.
UB == [junk : Bits, abort : BOOLEAN, checks : {FALSE}]
\* The same for a call that drops nothing in place: only the bits are open.
UBRead == [junk : Bits, abort : {FALSE}, checks : {FALSE}]
\* The same for a call that adds two numbers of the buffer: whether the build
\* has overflow checks decides between a panic and a wrapped sum. No other
\* call consults it.
UBSum == [junk : Bits, abort : {FALSE}, checks : BOOLEAN]

None == <<>>
Some(v) == <<v>>

----------------------------------------------------------------------------
(* usize arithmetic *)

RECURSIVE BitAnd(_, _)
BitAnd(a, b) ==
    IF a = 0 \/ b = 0 THEN 0
    ELSE (a % 2) * (b % 2) + 2 * BitAnd(a \div 2, b \div 2)

IsPowerOfTwo(v) == v # 0 /\ BitAnd(v, v - 1) = 0

UsizeMax == 2 ^ WordBits - 1
Usize == 0 .. UsizeMax

IsizeMax == 2 ^ (WordBits - 1) - 1

\* a + b on usize: the sum wraps when the build has no overflow checks, and
\* the call panics when it has them.
AddOverflows(a, b) == a + b > UsizeMax
WrappingAdd(a, b) == (a + b) % (UsizeMax + 1)

\* What try_from returns.
Ok(c) == [ok |-> TRUE, val |-> c, err |-> "none"]
Err(e) == [ok |-> FALSE, val |-> 0, err |-> e]

----------------------------------------------------------------------------
(* capacity.rs *)

NonZeroCapacityNew(value) == [inner |-> value]
NonZeroCapacityGet(c) == c.inner
NonZeroCapacityTryFrom(value) ==
    IF value # 0 THEN Ok(NonZeroCapacityNew(value)) ELSE Err("NonZeroCapacityError")

PowerOfTwoCapacityNew(value) == [inner |-> value]
PowerOfTwoCapacityGet(c) == c.inner
PowerOfTwoCapacityTryFrom(value) ==
    IF IsPowerOfTwo(value) THEN Ok(PowerOfTwoCapacityNew(value))
    ELSE Err("PowerOfTwoCapacityError")

\* Mutant: the value is stored, not the mask.
MaskingCapacityNewValue(value) == [inner |-> value]
MaskingCapacityNew(value) == [inner |-> value - 1]
MaskingCapacityMask(c) == c.inner
\* Mutant: the mask is handed back as the capacity.
MaskingCapacityGetMask(c) == c.inner
MaskingCapacityGet(c) == c.inner + 1
MaskingCapacityTryFrom(value) ==
    IF IsPowerOfTwo(value) THEN Ok(MaskingCapacityNew(value))
    ELSE Err("PowerOfTwoCapacityError")

----------------------------------------------------------------------------
(* storage: N slots, none of them initialised at construction *)

Uninit == [st |-> "uninit", val |-> 0]

NewStorage(capacity, n) == [capacity |-> capacity, inner |-> [i \in 0 .. n - 1 |-> Uninit]]

\* Layout::array::<T>(n): n elements of the given size, or an error when
\* they take more than isize::MAX bytes.
LayoutArray(size, n) ==
    IF size * n > IsizeMax THEN [ok |-> FALSE, size |-> 0]
    ELSE [ok |-> TRUE, size |-> size * n]

\* ArrayStorage::default(): the slots are part of the value itself.
ArrayStorageDefault(capacity, n) ==
    [capacity |-> capacity, inner |-> NewStorage(capacity, n).inner,
     pointer |-> "inline"]

\* AllocStorage::new(capacity) for elements of the given size; allocated
\* tells whether alloc::alloc returns a block or null. allocs counts the
\* blocks handed out.
AllocStorageNew(capacity, raw_capacity, size, allocated) ==
    LET layout == LayoutArray(size, raw_capacity)
        slots == NewStorage(capacity, raw_capacity).inner
    IN  IF ~layout.ok THEN [fault |-> "layout", allocs |-> 0, storage |-> <<>>]
        ELSE IF layout.size = 0
        THEN [fault |-> "none", allocs |-> 0,
              storage |-> [capacity |-> capacity, inner |-> slots,
                           pointer |-> "dangling"]]
        ELSE IF ~allocated THEN [fault |-> "alloc", allocs |-> 0, storage |-> <<>>]
        ELSE [fault |-> "none", allocs |-> 1,
              storage |-> [capacity |-> capacity, inner |-> slots,
                           pointer |-> "block"]]

\* ptr.read(): the bits of the slot, moved out to the caller.
PtrRead(inner, pos, u) ==
    [inner |-> [inner EXCEPT ![pos].st = IF @ = "live" THEN "moved" ELSE @],
     out |-> IF inner[pos].st = "uninit" THEN u.junk ELSE inner[pos].val]

\* ptr.write(item): the slot is overwritten; what it held is not looked at.
PtrWrite(inner, pos, item) == [inner EXCEPT ![pos] = [st |-> "live", val |-> item]]

\* ptr.replace(item): read, then write.
PtrReplace(inner, pos, item, u) ==
    [inner |-> PtrWrite(inner, pos, item), out |-> PtrRead(inner, pos, u).out]

----------------------------------------------------------------------------
(* what a call reports: the buffer after it, the value returned, the slot    *)
(* touched, the state of the slot a returned value was read from ("none"     *)
(* when nothing was read), the state of the slot whose content was dropped   *)
(* in place ("none" when nothing was dropped), and how the call failed.      *)

Result(b, ret, pos, read, drop) ==
    [rb |-> b, ret |-> ret, pos |-> pos, read |-> read, drop |-> drop, fault |-> "none"]

Fault(b, pos, drop, why) ==
    [rb |-> b, ret |-> None, pos |-> pos, read |-> "none", drop |-> drop, fault |-> why]

----------------------------------------------------------------------------
(* masking/mod.rs *)

MaskingCapacityOf(b) == MaskingCapacityGet(b.storage.capacity)
\* Mutant: the comparison is > instead of ==.
MaskingIsFullGreater(b) == b.len > MaskingCapacityOf(b)
MaskingIsFull(b) == b.len = MaskingCapacityOf(b)
\* Mutant: the comparison is < instead of ==.
MaskingIsEmptyLess(b) == b.len < 0
MaskingIsEmpty(b) == b.len = 0

MaskingFromEmpty(storage) == [index |-> 0, len |-> 0, storage |-> storage]

MaskingEnqueue(b, item, u) ==
    LET mask == MaskingCapacityMask(b.storage.capacity)
        offset == BitAnd(mask, b.index + b.len)
        buffer == b.storage.inner
    IN  IF offset \notin DOMAIN buffer THEN Fault(b, offset, "none", "bounds")
        ELSE IF MaskingIsFull(b) THEN
            LET r == PtrReplace(buffer, offset, item, u)
            IN  Result([b EXCEPT !.index = BitAnd(mask, b.index + 1),
                                 !.storage.inner = r.inner],
                       Some(r.out), offset, buffer[offset].st, "none")
        ELSE
            \* *ptr = item: the old content of the slot is dropped in place
            \* when the element type has drop glue, then the item is written.
            LET dropped == IF needsDrop THEN buffer[offset].st ELSE "none"
            IN  IF dropped \in {"uninit", "moved"} /\ u.abort
                THEN Fault(b, offset, dropped, "abort")
                ELSE Result([b EXCEPT !.len = b.len + 1,
                                      !.storage.inner = PtrWrite(buffer, offset, item)],
                            None, offset, "none", dropped)

MaskingDequeue(b, u) ==
    IF MaskingIsEmpty(b) THEN Result(b, None, -1, "none", "none")
    ELSE
        LET buffer == b.storage.inner
            mask == MaskingCapacityMask(b.storage.capacity)
        IN  IF b.index \notin DOMAIN buffer THEN Fault(b, b.index, "none", "bounds")
            ELSE IF b.len = 0 THEN Fault(b, b.index, "none", "underflow")
            ELSE
                LET r == PtrRead(buffer, b.index, u)
                IN  Result([b EXCEPT !.index = BitAnd(mask, b.index + 1),
                                     !.len = b.len - 1,
                                     !.storage.inner = r.inner],
                           Some(r.out), b.index, buffer[b.index].st, "none")

----------------------------------------------------------------------------
(* subtracting/mod.rs *)

SubtractingCapacityOf(b) == NonZeroCapacityGet(b.storage.capacity)
SubtractingIsFull(b) == b.len = SubtractingCapacityOf(b)
SubtractingIsEmpty(b) == b.len = 0

SubtractingWithStorage(storage) == [off |-> 0, len |-> 0, storage |-> storage]

\* Mutant: a position past the end wraps to the start of the storage.
SubtractingPosToStart(off, len, cap) ==
    IF len = cap THEN off
    ELSE IF off + len >= cap THEN 0
    ELSE off + len

\* Mutant: the element is written one slot too far.
SubtractingPosOneOff(off, len, cap) ==
    IF len = cap THEN off
    ELSE IF off + len + 1 >= cap THEN off + len + 1 - cap
    ELSE off + len + 1

\* The position the element has to be written to.
SubtractingPos(off, len, cap) ==
    IF len = cap THEN off
    ELSE IF WrappingAdd(off, len) >= cap THEN WrappingAdd(off, len) - cap
    ELSE WrappingAdd(off, len)

\* Mutant: the offset is advanced without wrapping.
SubtractingAdvanceNoWrap(off, cap) == off + 1
\* The offset after the oldest element has left.
SubtractingAdvance(off, cap) == IF off + 1 = cap THEN off + 1 - cap ELSE off + 1

SubtractingEnqueue(b, item, u) ==
    LET off == b.off
        len == b.len
        cap == SubtractingCapacityOf(b)
        pos == SubtractingPos(off, len, cap)
        buffer == b.storage.inner
    IN  \* off + len is added only when the buffer is not full
        IF len # cap /\ AddOverflows(off, len) /\ u.checks
        THEN Fault(b, -1, "none", "overflow")
        ELSE IF pos \notin DOMAIN buffer THEN Fault(b, pos, "none", "bounds")
        ELSE IF len = cap THEN
            LET r == PtrReplace(buffer, pos, item, u)
            IN  Result([b EXCEPT !.off = SubtractingAdvance(off, cap),
                                 !.storage.inner = r.inner],
                       Some(r.out), pos, buffer[pos].st, "none")
        ELSE
            Result([b EXCEPT !.len = b.len + 1,
                             !.storage.inner = PtrWrite(buffer, pos, item)],
                   None, pos, "none", "none")

\* Mutant: the length is not decremented.
SubtractingDequeueKeepsLen(b, u) ==
    IF b.len = 0 THEN Result(b, None, -1, "none", "none")
    ELSE
        LET r == PtrRead(b.storage.inner, b.off, u)
        IN  Result([b EXCEPT !.off = SubtractingAdvance(b.off, SubtractingCapacityOf(b)),
                             !.storage.inner = r.inner],
                   Some(r.out), b.off, b.storage.inner[b.off].st, "none")

SubtractingDequeue(b, u) ==
    LET off == b.off
        len == b.len
        cap == SubtractingCapacityOf(b)
        buffer == b.storage.inner
    IN  IF len = 0 THEN Result(b, None, -1, "none", "none")
        ELSE IF off \notin DOMAIN buffer THEN Fault(b, off, "none", "bounds")
        ELSE IF b.len = 0 THEN Fault(b, off, "none", "underflow")
        ELSE
            LET r == PtrRead(buffer, off, u)
            IN  Result([b EXCEPT !.off = SubtractingAdvance(off, cap),
                                 !.len = b.len - 1,
                                 !.storage.inner = r.inner],
                       Some(r.out), off, buffer[off].st, "none")

----------------------------------------------------------------------------
(* sparse_masking/mod.rs *)

\* Mutant: the capacity of the storage is reported.
SparseCapacityOfStorage(b) == MaskingCapacityGet(b.storage.capacity)
SparseCapacityOf(b) == NonZeroCapacityGet(b.cap)
\* Mutant: the buffer is full when the whole storage is.
SparseIsFullAtStorage(b) == b.len = MaskingCapacityGet(b.storage.capacity)
SparseIsFull(b) == b.len = SparseCapacityOf(b)
SparseIsEmpty(b) == b.len = 0

\* Mutant: a capacity equal to that of the storage is refused.
SparseWithStorageAssertLess(capacity, storage) ==
    NonZeroCapacityGet(capacity) < MaskingCapacityGet(storage.capacity)

\* assert!(artificial_capacity <= storage_capacity)
SparseWithStorageAssert(capacity, storage) ==
    NonZeroCapacityGet(capacity) <= MaskingCapacityGet(storage.capacity)

\* with_storage, past its assertion.
SparseWithStorage(capacity, storage) ==
    [off |-> 0, len |-> 0, cap |-> capacity, storage |-> storage]

SparseEnqueue(b, item, u) ==
    LET off == b.off
        len == b.len
        mask == MaskingCapacityMask(b.storage.capacity)
        pos == BitAnd(off + len, mask)
        buffer == b.storage.inner
    IN  IF pos \notin DOMAIN buffer THEN Fault(b, pos, "none", "bounds")
        ELSE IF SparseIsFull(b) THEN
            LET r == PtrReplace(buffer, pos, item, u)
            IN  Result([b EXCEPT !.off = BitAnd(b.off + 1, mask),
                                 !.storage.inner = r.inner],
                       Some(r.out), pos, buffer[pos].st, "none")
        ELSE
            Result([b EXCEPT !.len = b.len + 1,
                             !.storage.inner = PtrWrite(buffer, pos, item)],
                   None, pos, "none", "none")

SparseDequeue(b, u) ==
    LET off == b.off
        len == b.len
        mask == MaskingCapacityMask(b.storage.capacity)
        buffer == b.storage.inner
    IN  IF len = 0 THEN Result(b, None, -1, "none", "none")
        ELSE IF off \notin DOMAIN buffer THEN Fault(b, off, "none", "bounds")
        ELSE IF b.len = 0 THEN Fault(b, off, "none", "underflow")
        ELSE
            LET r == PtrRead(buffer, off, u)
            IN  Result([b EXCEPT !.off = BitAnd(off + 1, mask),
                                 !.len = b.len - 1,
                                 !.storage.inner = r.inner],
                       Some(r.out), off, buffer[off].st, "none")

----------------------------------------------------------------------------
(* the buffer seen through whichever engine it is *)

Offset(b) == IF engine = "masking" THEN b.index ELSE b.off
Length(b) == b.len
StorageLen(b) == Cardinality(DOMAIN b.storage.inner)

CapacityOf(b) ==
    CASE engine = "masking" -> MaskingCapacityOf(b)
      [] engine = "sparse" -> SparseCapacityOf(b)
      [] engine = "subtracting" -> SubtractingCapacityOf(b)

IsFull(b) ==
    CASE engine = "masking" -> MaskingIsFull(b)
      [] engine = "sparse" -> SparseIsFull(b)
      [] engine = "subtracting" -> SubtractingIsFull(b)

IsEmpty(b) ==
    CASE engine = "masking" -> MaskingIsEmpty(b)
      [] engine = "sparse" -> SparseIsEmpty(b)
      [] engine = "subtracting" -> SubtractingIsEmpty(b)

----------------------------------------------------------------------------
(* history variables: they record what was asked of the buffer, and are      *)
(* never read by the operations.                                             *)

\* The number of elements the buffer was built to hold.
BuiltFor(b) == IF engine = "sparse" THEN b.cap.inner ELSE StorageLen(b)

\* A bounded queue that evicts its oldest element when full.
FifoEnqueue(q, n, x) == IF Len(q) >= n THEN Append(Tail(q), x) ELSE Append(q, x)
FifoDequeue(q) == IF q = <<>> THEN q ELSE Tail(q)

NoRun == [ok |-> FALSE, items |-> <<>>, deq |-> 0]

\* run.ok: every call since the buffer was last empty was an enqueue that did
\* not exceed the capacity (run.items, in order), followed by run.deq dequeues
\* (counted up to one past the number of items).
RunEnqueue(r, b, x) ==
    IF Length(b) = 0 THEN [ok |-> TRUE, items |-> <<x>>, deq |-> 0]
    ELSE IF r.ok /\ r.deq = 0 /\ Len(r.items) < BuiltFor(b)
    THEN [r EXCEPT !.items = Append(@, x)]
    ELSE NoRun

RunDequeue(r) ==
    IF r.ok THEN [r EXCEPT !.deq = IF @ <= Len(r.items) THEN @ + 1 ELSE @] ELSE r

NoCall ==
    [op |-> "new", item |-> 0, ret |-> None, pos |-> -1,
     read |-> "none", drop |-> "none", fault |-> "none"]

NoTest == [pc |-> "off", n |-> 0, i |-> 0, total |-> 0, seen |-> <<>>]

\* No other buffer is driven along with rb.
NoPeers == <<>>

\* The allocator has handed out no block.
NoBlocks == [allocs |-> 0, frees |-> 0]

\* No buffer has been constructed.
NoBuffer == <<>>

----------------------------------------------------------------------------
(* the state machine *)

PowersOfTwo == {v \in 1 .. MaxCap : IsPowerOfTwo(v)}

MaskingBuffers ==
    {MaskingFromEmpty(NewStorage(MaskingCapacityNew(n), n)) : n \in PowersOfTwo}

SubtractingBuffers ==
    {SubtractingWithStorage(NewStorage(NonZeroCapacityNew(n), n)) : n \in 1 .. MaxCap}

SparseBuffers ==
    {SparseWithStorage(NonZeroCapacityNew(c), NewStorage(MaskingCapacityNew(n), n)) :
        <<c, n>> \in {p \in (1 .. MaxCap) \X PowersOfTwo : p[1] <= p[2]}}

Init ==
    /\ engine \in {"masking", "sparse", "subtracting"}
    /\ needsDrop \in BOOLEAN
    /\ rb \in CASE engine = "masking" -> MaskingBuffers
                [] engine = "sparse" -> SparseBuffers
                [] engine = "subtracting" -> SubtractingBuffers
    /\ call = NoCall
    /\ fifo = <<>>
    /\ run = NoRun
    /\ test = NoTest
    /\ peers = NoPeers
    /\ heap = NoBlocks

\* A call that was made: the buffer and the record of the call change, and
\* the history follows. A call that failed ends the program.
Step(op, item, res) ==
    /\ rb' = res.rb
    /\ call' = [op |-> op, item |-> item, ret |-> res.ret, pos |-> res.pos,
                read |-> res.read, drop |-> res.drop, fault |-> res.fault]
    /\ fifo' = IF res.fault # "none" THEN fifo
               ELSE IF op = "enqueue" THEN FifoEnqueue(fifo, BuiltFor(rb), item)
               ELSE FifoDequeue(fifo)
    /\ run' = IF res.fault # "none" THEN run
              ELSE IF op = "enqueue" THEN RunEnqueue(run, rb, item)
              ELSE RunDequeue(run)
    /\ UNCHANGED <<engine, needsDrop>>

Running == call.fault = "none"

EnqueueMasking ==
    /\ engine = "masking" /\ test.pc = "off" /\ Running
    /\ \E item \in Items, u \in UB : Step("enqueue", item, MaskingEnqueue(rb, item, u))
    /\ UNCHANGED <<test, peers, heap>>

DequeueMasking ==
    /\ engine = "masking" /\ test.pc = "off" /\ Running
    /\ \E u \in UBRead : Step("dequeue", 0, MaskingDequeue(rb, u))
    /\ UNCHANGED <<test, peers, heap>>

EnqueueSubtracting ==
    /\ engine = "subtracting" /\ test.pc = "off" /\ Running
    /\ \E item \in Items, u \in UBSum : Step("enqueue", item, SubtractingEnqueue(rb, item, u))
    /\ UNCHANGED <<test, peers, heap>>

DequeueSubtracting ==
    /\ engine = "subtracting" /\ test.pc = "off" /\ Running
    /\ \E u \in UBRead : Step("dequeue", 0, SubtractingDequeue(rb, u))
    /\ UNCHANGED <<test, peers, heap>>

EnqueueSparse ==
    /\ engine = "sparse" /\ test.pc = "off" /\ Running
    /\ \E item \in Items, u \in UBRead : Step("enqueue", item, SparseEnqueue(rb, item, u))
    /\ UNCHANGED <<test, peers, heap>>

DequeueSparse ==
    /\ engine = "sparse" /\ test.pc = "off" /\ Running
    /\ \E u \in UBRead : Step("dequeue", 0, SparseDequeue(rb, u))
    /\ UNCHANGED <<test, peers, heap>>

Enqueue == EnqueueMasking \/ EnqueueSubtracting \/ EnqueueSparse
Dequeue == DequeueMasking \/ DequeueSubtracting \/ DequeueSparse

Next == Enqueue \/ Dequeue

Spec == Init /\ [][Next]_vars

----------------------------------------------------------------------------
(* masking/tests.rs, wrap_many_times: the inputs 1..n are enqueued into a    *)
(* fresh masking buffer, every displaced value is added to total, and the    *)
(* buffer is then drained into total. seen lists the values as they came     *)
(* back. The test has n = 40 and capacity 4.                                 *)

Took(t, ret) ==
    IF ret = None THEN t
    ELSE [t EXCEPT !.total = @ + ret[1], !.seen = Append(@, ret[1])]

InitWrap ==
    /\ engine = "masking"
    /\ needsDrop \in BOOLEAN
    /\ rb \in MaskingBuffers
    /\ call = NoCall
    /\ fifo = <<>>
    /\ run = NoRun
    /\ test \in {[pc |-> "for", n |-> n, i |-> 1, total |-> 0, seen |-> <<>>] :
                    n \in 0 .. MaxInputs}
    /\ peers = NoPeers
    /\ heap = NoBlocks

\* for i in 1..=n { if let Some(n) = buf.enqueue(i) { total += n; } }
WrapFor ==
    /\ test.pc = "for" /\ test.i <= test.n /\ Running
    /\ \E u \in UB :
        LET res == MaskingEnqueue(rb, test.i, u)
        IN  /\ Step("enqueue", test.i, res)
            /\ test' = IF res.fault # "none" THEN test
                       ELSE [Took(test, res.ret) EXCEPT !.i = @ + 1]
    /\ UNCHANGED <<peers, heap>>

WrapForEnd ==
    /\ test.pc = "for" /\ test.i > test.n /\ Running
    /\ test' = [test EXCEPT !.pc = "while"]
    /\ UNCHANGED <<engine, needsDrop, rb, call, fifo, run, peers, heap>>

\* while let Some(n) = buf.dequeue() { total += n; }
WrapWhile ==
    /\ test.pc = "while" /\ Running
    /\ \E u \in UBRead :
        LET res == MaskingDequeue(rb, u)
        IN  /\ Step("dequeue", 0, res)
            /\ test' = IF res.fault # "none" THEN test
                       ELSE IF res.ret = None THEN [test EXCEPT !.pc = "done"]
                       ELSE Took(test, res.ret)
    /\ UNCHANGED <<peers, heap>>

NextWrap == WrapFor \/ WrapForEnd \/ WrapWhile

SpecWrap == InitWrap /\ [][NextWrap]_vars

----------------------------------------------------------------------------
(* the three engines side by side: a masking buffer (rb), a subtracting      *)
(* buffer and a sparse-masking buffer whose capacity is that of its storage, *)
(* all built for the same power of two n and given the same calls. A call    *)
(* is made on rb first; if it does not return, the program has ended.        *)

CallRecord(op, item, res) ==
    [op |-> op, item |-> item, ret |-> res.ret, pos |-> res.pos,
     read |-> res.read, drop |-> res.drop, fault |-> res.fault]

PeersFor(n) ==
    [subtracting |->
        [rb |-> SubtractingWithStorage(NewStorage(NonZeroCapacityNew(n), n)),
         call |-> NoCall],
     sparse |->
        [rb |-> SparseWithStorage(NonZeroCapacityNew(n),
                                  NewStorage(MaskingCapacityNew(n), n)),
         call |-> NoCall]]

InitLock ==
    /\ engine = "masking"
    /\ needsDrop \in BOOLEAN
    /\ \E n \in PowersOfTwo :
        /\ rb = MaskingFromEmpty(NewStorage(MaskingCapacityNew(n), n))
        /\ peers = PeersFor(n)
    /\ call = NoCall
    /\ fifo = <<>>
    /\ run = NoRun
    /\ test = NoTest
    /\ heap = NoBlocks

LockEnqueue ==
    /\ peers # NoPeers /\ Running
    /\ \E item \in Items, u \in UB, v \in UBSum :
        LET res == MaskingEnqueue(rb, item, u)
            sub == SubtractingEnqueue(peers.subtracting.rb, item, v)
            spa == SparseEnqueue(peers.sparse.rb, item, v)
        IN  /\ Step("enqueue", item, res)
            /\ peers' = IF res.fault # "none" THEN peers
                        ELSE [subtracting |-> [rb |-> sub.rb,
                                               call |-> CallRecord("enqueue", item, sub)],
                              sparse |-> [rb |-> spa.rb,
                                          call |-> CallRecord("enqueue", item, spa)]]
    /\ UNCHANGED <<test, heap>>

LockDequeue ==
    /\ peers # NoPeers /\ Running
    /\ \E u \in UBRead :
        LET res == MaskingDequeue(rb, u)
            sub == SubtractingDequeue(peers.subtracting.rb, u)
            spa == SparseDequeue(peers.sparse.rb, u)
        IN  /\ Step("dequeue", 0, res)
            /\ peers' = IF res.fault # "none" THEN peers
                        ELSE [subtracting |-> [rb |-> sub.rb,
                                               call |-> CallRecord("dequeue", 0, sub)],
                              sparse |-> [rb |-> spa.rb,
                                          call |-> CallRecord("dequeue", 0, spa)]]
    /\ UNCHANGED <<test, heap>>

NextLock == LockEnqueue \/ LockDequeue

SpecLock == InitLock /\ [][NextLock]_vars

----------------------------------------------------------------------------
(* the functions that are called on plain numbers, each on every argument    *)
(* a usize can hold: Init draws the call and its arguments, the action       *)
(* makes the call.                                                           *)

UsizePowersOfTwo == {v \in Usize : IsPowerOfTwo(v)}

Pending(op, args) == [NoCall EXCEPT !.op = op, !.item = args]

PendingTryFrom ==
    {Pending(op, v) : op \in {"NonZeroCapacity::try_from",
                              "PowerOfTwoCapacity::try_from",
                              "MaskingCapacity::try_from"},
                      v \in Usize}

PendingMask ==
    {Pending("mask", [value |-> v, x |-> x]) : v \in UsizePowersOfTwo, x \in Usize}

PendingWithStorage ==
    {Pending("with_storage", [capacity |-> c, storage |-> n]) :
        c \in Usize \ {0}, n \in UsizePowersOfTwo}

\* checks: whether the build has overflow checks.
PendingPos ==
    {Pending("pos", [off |-> a[1], len |-> a[2], cap |-> a[3], checks |-> k]) :
        a \in {b \in Usize \X Usize \X (Usize \ {0}) : b[1] < b[3] /\ b[2] <= b[3]},
        k \in BOOLEAN}

InitCalls ==
    /\ engine = "sparse"
    /\ needsDrop = FALSE
    /\ rb = NoBuffer
    /\ \/ call \in PendingTryFrom
       \/ call \in PendingMask
       \/ call \in PendingWithStorage
       \/ call \in PendingPos
    /\ fifo = <<>>
    /\ run = NoRun
    /\ test = [NoTest EXCEPT !.pc = "call"]
    /\ peers = NoPeers
    /\ heap = NoBlocks

\* The call returns ret, or fails with fault.
Returns(ret, fault) ==
    /\ call' = [call EXCEPT !.ret = ret, !.fault = fault]
    /\ test' = [test EXCEPT !.pc = "returned"]
    /\ UNCHANGED <<engine, needsDrop, fifo, run, peers, heap>>

TryFromNonZero ==
    /\ test.pc = "call" /\ call.op = "NonZeroCapacity::try_from"
    /\ Returns(NonZeroCapacityTryFrom(call.item), "none")
    /\ UNCHANGED rb

TryFromPowerOfTwo ==
    /\ test.pc = "call" /\ call.op = "PowerOfTwoCapacity::try_from"
    /\ Returns(PowerOfTwoCapacityTryFrom(call.item), "none")
    /\ UNCHANGED rb

TryFromMasking ==
    /\ test.pc = "call" /\ call.op = "MaskingCapacity::try_from"
    /\ Returns(MaskingCapacityTryFrom(call.item), "none")
    /\ UNCHANGED rb

\* let mask = self.storage.capacity().mask(); mask & x
MaskIndex ==
    /\ test.pc = "call" /\ call.op = "mask"
    /\ LET capacity == MaskingCapacityTryFrom(call.item.value).val
       IN  Returns(Some(BitAnd(MaskingCapacityMask(capacity), call.item.x)), "none")
    /\ UNCHANGED rb

WithStorage ==
    /\ test.pc = "call" /\ call.op = "with_storage"
    /\ LET capacity == NonZeroCapacityNew(call.item.capacity)
           storage == NewStorage(MaskingCapacityNew(call.item.storage),
                                 call.item.storage)
       IN  IF SparseWithStorageAssert(capacity, storage)
           THEN /\ rb' = SparseWithStorage(capacity, storage)
                /\ Returns(None, "none")
           ELSE /\ rb' = rb
                /\ Returns(None, "panic")

\* The position enqueue writes to and the offset after an advance, computed
\* from off, len and cap as the subtracting engine computes them; off + len
\* is added only when the buffer is not full.
WritePosition ==
    /\ test.pc = "call" /\ call.op = "pos"
    /\ LET off == call.item.off
           len == call.item.len
           cap == call.item.cap
       IN  IF call.item.checks /\ len # cap /\ AddOverflows(off, len)
           THEN Returns(None, "overflow")
           ELSE Returns([pos |-> SubtractingPos(off, len, cap),
                         advance |-> SubtractingAdvance(off, cap)], "none")
    /\ UNCHANGED rb

NextCalls ==
    \/ TryFromNonZero \/ TryFromPowerOfTwo \/ TryFromMasking
    \/ MaskIndex \/ WithStorage \/ WritePosition

SpecCalls == InitCalls /\ [][NextCalls]_vars

----------------------------------------------------------------------------
(* a subtracting buffer of every capacity a usize can hold. A storage of     *)
(* more than isize::MAX slots exists only for a zero-sized element type,     *)
(* which has one value: every item enqueued here is that value.              *)

Unit == 1

InitWord ==
    /\ engine = "subtracting"
    /\ needsDrop \in BOOLEAN
    /\ rb \in {SubtractingWithStorage(NewStorage(NonZeroCapacityNew(n), n)) :
                n \in Usize \ {0}}
    /\ call = NoCall
    /\ fifo = <<>>
    /\ run = NoRun
    /\ test = NoTest
    /\ peers = NoPeers
    /\ heap = NoBlocks

EnqueueWord ==
    /\ engine = "subtracting" /\ Running
    /\ \E u \in UBSum : Step("enqueue", Unit, SubtractingEnqueue(rb, Unit, u))
    /\ UNCHANGED <<test, peers, heap>>

DequeueWord ==
    /\ engine = "subtracting" /\ Running
    /\ \E u \in UBRead : Step("dequeue", 0, SubtractingDequeue(rb, u))
    /\ UNCHANGED <<test, peers, heap>>

NextWord == EnqueueWord \/ DequeueWord

SpecWord == InitWord /\ [][NextWord]_vars

----------------------------------------------------------------------------
(* the draining loop of masking/tests.rs, `while let Some(n) = dequeue()`,   *)
(* begun in any state enqueue and dequeue calls lead to, on any engine.      *)
(* test.n is the length when the loop began, test.i the number of elements   *)
(* the loop has taken. The loop is straight-line code on its own thread:     *)
(* nothing it waits for can keep its next dequeue from being made. Neither   *)
(* enqueue nor dequeue looks at the value of an item, and the loop only      *)
(* counts: every item enqueued before the loop is the same value.            *)

EnqueueOf(b, item, u) ==
    CASE engine = "masking" -> MaskingEnqueue(b, item, u)
      [] engine = "sparse" -> SparseEnqueue(b, item, u)
      [] engine = "subtracting" -> SubtractingEnqueue(b, item, u)

DequeueOf(b, u) ==
    CASE engine = "masking" -> MaskingDequeue(b, u)
      [] engine = "sparse" -> SparseDequeue(b, u)
      [] engine = "subtracting" -> SubtractingDequeue(b, u)

DrainFill ==
    /\ test.pc = "off" /\ Running
    /\ \E u \in UB \cup UBSum : Step("enqueue", Unit, EnqueueOf(rb, Unit, u))
    /\ UNCHANGED <<test, peers, heap>>

DrainBegin ==
    /\ test.pc = "off" /\ Running
    /\ test' = [test EXCEPT !.pc = "while", !.n = Length(rb), !.i = 0]
    /\ UNCHANGED <<engine, needsDrop, rb, call, fifo, run, peers, heap>>

\* while let Some(n) = buf.dequeue() { total += n; }
DrainWhile ==
    /\ test.pc = "while" /\ Running
    /\ \E u \in UBRead :
        LET res == DequeueOf(rb, u)
        IN  /\ Step("dequeue", 0, res)
            /\ test' = IF res.fault # "none" THEN test
                       ELSE IF res.ret = None THEN [test EXCEPT !.pc = "done"]
                       ELSE [Took(test, res.ret) EXCEPT !.i = @ + 1]
    /\ UNCHANGED <<peers, heap>>

NextDrain == DrainFill \/ Dequeue \/ DrainBegin \/ DrainWhile

SpecDrain == Init /\ [][NextDrain]_vars /\ WF_vars(DrainWhile)

----------------------------------------------------------------------------
(* the life of a buffer: its storage is constructed (inline, or on the heap  *)
(* for elements of some size), the buffer is built over it, enqueue and      *)
(* dequeue are called, and the buffer is dropped with whatever it holds.     *)

ElemSizes == 0 .. MaxSize

\* The storages a buffer of the engine can be built over: kind and element
\* size, the capacity n of the storage and the capacity cap of the buffer.
StorageChoices ==
    {a \in [kind : {"array", "alloc"}, size : ElemSizes,
            n : 1 .. MaxCap, cap : 1 .. MaxCap] :
        /\ a.kind = "array" => a.size = 1
        /\ engine \in {"masking", "sparse"} => IsPowerOfTwo(a.n)
        /\ IF engine = "sparse" THEN a.cap <= a.n ELSE a.cap = a.n}

InitLife ==
    /\ engine \in {"masking", "sparse", "subtracting"}
    /\ needsDrop \in BOOLEAN
    /\ rb = NoBuffer
    /\ call \in {[NoCall EXCEPT !.item = a] : a \in StorageChoices}
    /\ fifo = <<>>
    /\ run = NoRun
    /\ test = [NoTest EXCEPT !.pc = "call"]
    /\ peers = NoPeers
    /\ heap = NoBlocks

\* from_empty / with_storage of the engine over the storage.
BuildOver(storage, cap) ==
    CASE engine = "masking" -> MaskingFromEmpty(storage)
      [] engine = "sparse" -> SparseWithStorage(NonZeroCapacityNew(cap), storage)
      [] engine = "subtracting" -> SubtractingWithStorage(storage)

Construct ==
    /\ test.pc = "call" /\ call.op = "new"
    /\ \E allocated \in BOOLEAN :
        LET a == call.item
            capacity == IF engine = "subtracting" THEN NonZeroCapacityNew(a.n)
                        ELSE MaskingCapacityNew(a.n)
            made == IF a.kind = "alloc"
                    THEN AllocStorageNew(capacity, a.n, a.size, allocated)
                    ELSE [fault |-> "none", allocs |-> 0,
                          storage |-> ArrayStorageDefault(capacity, a.n)]
        IN  /\ heap' = [heap EXCEPT !.allocs = @ + made.allocs]
            /\ call' = [call EXCEPT !.fault = made.fault]
            /\ IF made.fault # "none"
               THEN /\ rb' = rb
                    /\ test' = [test EXCEPT !.pc = "failed"]
               ELSE /\ rb' = BuildOver(made.storage, a.cap)
                    /\ test' = [test EXCEPT !.pc = "off"]
    /\ UNCHANGED <<engine, needsDrop, fifo, run, peers>>

\* The buffer goes out of scope. No engine and no storage implements Drop,
\* so the fields are dropped one by one: off, len and cap are plain numbers,
\* the MaybeUninit of the inline storage drops nothing of what it holds, and
\* the NonNull of the heap storage is a plain pointer. No slot is dropped
\* and no block is given back.
Destroy ==
    /\ test.pc = "off" /\ Running
    /\ call' = [NoCall EXCEPT !.op = "drop"]
    /\ test' = [test EXCEPT !.pc = "dropped"]
    /\ UNCHANGED <<engine, needsDrop, rb, fifo, run, peers, heap>>

NextLife == Construct \/ Enqueue \/ Dequeue \/ Destroy

SpecLife == InitLife /\ [][NextLife]_vars

----------------------------------------------------------------------------
(* what the claims speak of *)

\* The elements of the buffer in the order dequeue hands them out: the slots
\* from the offset on, len of them, wrapping at the end of the storage.
Contents(b) ==
    [i \in 1 .. b.len |-> b.storage.inner[(Offset(b) + i - 1) % StorageLen(b)].val]

\* The slots of the window, and the slots holding an element not moved out.
Window(b) == {(Offset(b) + i - 1) % StorageLen(b) : i \in 1 .. b.len}
LiveSlots(b) == {p \in DOMAIN b.storage.inner : b.storage.inner[p].st = "live"}

Completed == call.fault = "none"

----------------------------------------------------------------------------
(* C1 *)

\* C1: in every reachable state of every engine 0 <= length <= capacity(),
\* is_full() is true exactly when length = capacity(), and is_empty() is true
\* exactly when length = 0; capacity() is the number the buffer was built for
\* and length is the number of elements it holds.
C1_LengthWithinCapacity ==
    /\ 0 <= rb.len /\ rb.len <= CapacityOf(rb)
    /\ IsFull(rb) <=> rb.len = CapacityOf(rb)
    /\ IsEmpty(rb) <=> rb.len = 0
    /\ CapacityOf(rb) = BuiltFor(rb)
    /\ rb.len = Len(fifo)

\* A full buffer that has just displaced an element, its offset wrapped.
C1_Witness ==
    /\ engine = "subtracting" /\ CapacityOf(rb) = 3
    /\ call.op = "enqueue" /\ call.ret # None
    /\ IsFull(rb) /\ ~IsEmpty(rb) /\ rb.off = 0 /\ rb.len = 3

----------------------------------------------------------------------------
(* C2 *)

\* C2: in the masking and subtracting engines an enqueue(x) into a full
\* buffer returns the least recently enqueued of the elements held (read from
\* a live slot) and leaves the previous contents without that element and
\* with x at the end; a dequeue then returns the oldest element and leaves the
\* rest, so the elements come out in FIFO order.
C2_OverwriteOldest ==
    [][(engine \in {"masking", "subtracting"}) =>
        /\ (call'.op = "enqueue" /\ IsFull(rb)) =>
            /\ call'.fault = "none"
            /\ fifo # <<>> /\ Contents(rb) = fifo
            /\ call'.ret = Some(Head(fifo))
            /\ call'.read = "live"
            /\ Contents(rb') = Append(Tail(Contents(rb)), call'.item)
            /\ IsFull(rb')
        /\ (call'.op = "dequeue" /\ ~IsEmpty(rb)) =>
            /\ call'.fault = "none"
            /\ fifo # <<>> /\ Contents(rb) = fifo
            /\ call'.ret = Some(Head(fifo))
            /\ Contents(rb') = Tail(Contents(rb))]_vars

\* An enqueue has displaced the oldest element of a full masking buffer of
\* capacity 4 whose offset was 1, and returned it.
C2_Witness ==
    /\ engine = "masking" /\ CapacityOf(rb) = 4
    /\ call.op = "enqueue" /\ call.ret # None /\ call.read = "live"
    /\ IsFull(rb) /\ rb.index = 2
    /\ Contents(rb) = fifo /\ fifo[4] = call.item

----------------------------------------------------------------------------
(* C3 *)

\* C3: a sparse-masking enqueue(x) into a full buffer (length = cap, for any
\* cap <= P) overwrites the slot at offset, returns the oldest element held
\* (the one stored at offset), advances offset by one under the mask and
\* leaves the previous contents without that element and with x at the end.
C3_SparseOverwriteOldest ==
    [][(engine = "sparse" /\ call'.op = "enqueue" /\ IsFull(rb)) =>
        /\ call'.fault = "none"
        /\ call'.pos = rb.off
        /\ fifo # <<>> /\ call'.ret = Some(Head(fifo))
        /\ call'.read = "live"
        /\ rb'.off = BitAnd(rb.off + 1, MaskingCapacityMask(rb.storage.capacity))
        /\ Contents(rb') = Append(Tail(Contents(rb)), call'.item)]_vars

----------------------------------------------------------------------------
(* C4 *)

\* C4: when e1..ek (k <= capacity()) are enqueued into an empty buffer of any
\* engine, at whatever offset, with no dequeue in between, each of those
\* enqueues returns nothing, and the i-th of the dequeues that follow returns
\* ei, for i = 1..k.
C4_FifoOrder ==
    (run.ok /\ Completed) =>
        /\ Len(run.items) <= CapacityOf(rb)
        /\ run.deq = 0 =>
            /\ call.op = "enqueue" /\ call.ret = None
            /\ Contents(rb) = run.items
        /\ run.deq \in 1 .. Len(run.items) =>
            /\ call.op = "dequeue" /\ call.ret = Some(run.items[run.deq])

\* Three elements, not all equal, went into an empty sparse-masking buffer of
\* capacity 3 over 4 slots at offset 2 and have all been dequeued again.
C4_Witness ==
    /\ engine = "sparse" /\ CapacityOf(rb) = 3 /\ StorageLen(rb) = 4
    /\ run.ok /\ run.items = <<1, 2, 2>> /\ run.deq = 3
    /\ call.op = "dequeue" /\ call.ret = Some(2)
    /\ rb.off = 1 /\ rb.len = 0

----------------------------------------------------------------------------
(* C5 *)

\* C5: elements are moved, never copied: every value an enqueue or a dequeue
\* returns was read from a slot holding a live element (written by an enqueue
\* and not moved out since), so no slot that was never written is read, no
\* element is handed out twice, and no slot the buffer counts as holding an
\* element has had that element moved out to the caller.
C5_MovedNeverCopied ==
    /\ call.ret # None => call.read = "live"
    /\ call.read \in {"none", "live"}
    /\ Window(rb) \subseteq LiveSlots(rb)

----------------------------------------------------------------------------
(* C6 *)

\* C6: when the inputs 1..n have been enqueued into a fresh masking buffer
\* and the buffer has been drained, every input has come back exactly once,
\* as the displaced value of an enqueue or from a dequeue, so total is the
\* sum of the inputs (820 for 1..40).
C6_WrapConservation ==
    test.pc = "done" =>
        /\ test.total = (test.n * (test.n + 1)) \div 2
        /\ Len(test.seen) = test.n
        /\ \A v \in 1 .. test.n :
            Cardinality({k \in 1 .. Len(test.seen) : test.seen[k] = v}) = 1
        /\ IsEmpty(rb)

\* The test itself: capacity 4, inputs 1..40, total 820.
C6_Witness ==
    /\ test.pc = "done" /\ test.n = 40 /\ CapacityOf(rb) = 4
    /\ test.total = 820 /\ Len(test.seen) = 40

----------------------------------------------------------------------------
(* C7 *)

\* C7: in every engine a dequeue on an empty buffer (length = 0, at any
\* offset) returns nothing and leaves offset, length and every slot of the
\* storage as they were.
C7_DequeueEmpty ==
    [][(call'.op = "dequeue" /\ rb.len = 0) =>
        /\ call'.fault = "none"
        /\ call'.ret = None
        /\ rb' = rb]_vars

\* A dequeue has found a sparse-masking buffer empty at offset 3.
C7_Witness ==
    /\ engine = "sparse" /\ StorageLen(rb) = 4
    /\ call.op = "dequeue" /\ call.ret = None /\ Completed
    /\ rb.len = 0 /\ rb.off = 3

----------------------------------------------------------------------------
(* C8 *)

\* C8: in every engine, one element x enqueued into an empty buffer (reached
\* by whatever calls came before) returns nothing; the dequeue that follows
\* returns x and leaves the buffer empty; a further dequeue returns nothing.
C8_RoundTrip ==
    (run.ok /\ Completed /\ Len(run.items) = 1) =>
        /\ run.deq = 0 =>
            /\ call.op = "enqueue" /\ call.ret = None /\ call.item = run.items[1]
            /\ rb.len = 1
        /\ run.deq = 1 =>
            /\ call.op = "dequeue" /\ call.ret = Some(run.items[1])
            /\ IsEmpty(rb) /\ rb.len = 0
        /\ run.deq = 2 =>
            /\ call.op = "dequeue" /\ call.ret = None
            /\ IsEmpty(rb) /\ rb.len = 0

\* The round trip was made on a subtracting buffer of capacity 3 that earlier
\* calls had left empty at offset 2, and the further dequeue returned nothing.
C8_Witness ==
    /\ engine = "subtracting" /\ CapacityOf(rb) = 3
    /\ run.ok /\ Len(run.items) = 1 /\ run.deq = 2
    /\ call.op = "dequeue" /\ call.ret = None
    /\ rb.off = 0 /\ rb.len = 0
    /\ rb.storage.inner[2] = [st |-> "moved", val |-> run.items[1]]
    /\ rb.storage.inner[1].st = "moved"

----------------------------------------------------------------------------
(* C9 *)

\* C9: a sparse-masking buffer built with cap < P over a storage of P slots
\* has capacity() = cap, is full exactly when it holds cap elements (so it is
\* not full while it holds fewer), and never holds more than cap elements.
C9_SparseFullAtCap ==
    (engine = "sparse" /\ BuiltFor(rb) < StorageLen(rb)) =>
        /\ CapacityOf(rb) = BuiltFor(rb)
        /\ rb.len = Len(fifo)
        /\ IsFull(rb) <=> Len(fifo) = BuiltFor(rb)
        /\ rb.len <= BuiltFor(rb)
        /\ Cardinality(Window(rb)) = rb.len

\* A sparse-masking buffer of capacity 3 over 4 slots is full after an
\* enqueue found it full, and one slot of the storage is outside its window.
C9_Witness ==
    /\ engine = "sparse" /\ BuiltFor(rb) = 3 /\ StorageLen(rb) = 4
    /\ call.op = "enqueue" /\ call.ret # None
    /\ IsFull(rb) /\ rb.len = 3

----------------------------------------------------------------------------
(* C10 *)

\* The part of C10 about indices and the length: no call computes a slot
\* index outside the storage or decrements a length of 0.
IndexAndLengthSafe ==
    /\ call.fault \notin {"bounds", "underflow"}
    /\ call.pos = -1 \/ call.pos \in DOMAIN rb.storage.inner

\* C10: neither enqueue nor dequeue can fail in any reachable state of any
\* engine: no call fails, both stay enabled, the length decrement never
\* underflows and every slot index computed is within the storage.
C10_NeverFails ==
    /\ call.fault = "none"
    /\ IndexAndLengthSafe
    /\ test.pc = "off" => (ENABLED Enqueue /\ ENABLED Dequeue)

----------------------------------------------------------------------------
(* C11 *)

\* What every call does to the length and the offset, whatever it returns:
\* this part of C11 holds in all three engines.
LengthAndOffsetShape ==
    [][(call'.fault = "none") =>
        /\ (call'.op = "enqueue" /\ ~IsFull(rb)) =>
            rb'.len = rb.len + 1 /\ Offset(rb') = Offset(rb)
        /\ (call'.op = "enqueue" /\ IsFull(rb)) =>
            rb'.len = rb.len /\ Offset(rb') = (Offset(rb) + 1) % StorageLen(rb)
        /\ (call'.op = "dequeue" /\ ~IsEmpty(rb)) =>
            rb'.len = rb.len - 1 /\ Offset(rb') = (Offset(rb) + 1) % StorageLen(rb)]_vars

\* C11: in all three engines an enqueue into a buffer that is not full
\* returns nothing, adds one to the length and leaves the offset; an enqueue
\* into a full buffer returns an element the buffer held (displaced from a
\* slot of its window), leaves the length and moves the offset on by one
\* position, wrapping; a dequeue from a buffer that is not empty takes one
\* off the length and moves the offset on by one position, wrapping.
C11_TwoStateShape ==
    [][/\ (call'.op = "enqueue" /\ ~IsFull(rb)) =>
            /\ call'.fault = "none"
            /\ call'.ret = None
            /\ rb'.len = rb.len + 1 /\ Offset(rb') = Offset(rb)
       /\ (call'.op = "enqueue" /\ IsFull(rb)) =>
            /\ call'.fault = "none"
            /\ call'.ret # None
            /\ call'.read = "live" /\ call'.pos \in Window(rb)
            /\ rb'.len = rb.len /\ Offset(rb') = (Offset(rb) + 1) % StorageLen(rb)
       /\ (call'.op = "dequeue" /\ ~IsEmpty(rb)) =>
            /\ call'.fault = "none"
            /\ call'.ret # None
            /\ rb'.len = rb.len - 1
            /\ Offset(rb') = (Offset(rb) + 1) % StorageLen(rb)]_vars

----------------------------------------------------------------------------
(* C12 *)

\* C12: in every reachable state of every engine the offset is at least 0
\* and less than the number of slots of the storage (for the sparse-masking
\* engine that is the power of two P, not the capacity asked for), and a
\* buffer just constructed has offset 0.
C12_OffsetInRange ==
    /\ 0 <= Offset(rb) /\ Offset(rb) < StorageLen(rb)
    /\ Offset(rb) \in DOMAIN rb.storage.inner
    /\ call.op = "new" => Offset(rb) = 0

\* A sparse-masking buffer of capacity 2 over 4 slots whose offset has gone
\* past its capacity to the last slot of the storage.
C12_Witness ==
    /\ engine = "sparse" /\ BuiltFor(rb) = 2 /\ StorageLen(rb) = 4
    /\ call.op = "dequeue" /\ call.ret # None
    /\ rb.off = 3

----------------------------------------------------------------------------
(* C13 *)

\* What the bounded queue q of capacity n returns to a call: an enqueue
\* returns the oldest element when q is full, a dequeue when q is not empty.
FifoReturn(op, q, n) ==
    IF op = "enqueue"
    THEN IF Len(q) >= n THEN Some(Head(q)) ELSE None
    ELSE IF q = <<>> THEN None ELSE Some(Head(q))

\* C13: for every non-zero capacity, a power of two or not, every call on a
\* subtracting buffer completes and returns what a bounded FIFO queue of that
\* capacity, which evicts and returns its oldest element when enqueued while
\* full, returns to the same call; the buffer then holds what the queue holds.
C13_SubtractingIsFifo ==
    [][(engine = "subtracting") =>
        /\ call'.fault = "none"
        /\ call'.ret = FifoReturn(call'.op, fifo, BuiltFor(rb))
        /\ call'.ret # None => call'.read = "live"
        /\ Contents(rb') = fifo']_vars

\* A subtracting buffer of capacity 3 holding 1, 2, 2 has been enqueued a
\* fourth element and returned the 1, as the queue does.
C13_Witness ==
    /\ engine = "subtracting" /\ CapacityOf(rb) = 3
    /\ call.op = "enqueue" /\ call.item = 1 /\ call.ret = Some(1)
    /\ fifo = <<2, 2, 1>> /\ Contents(rb) = fifo
    /\ rb.off = 1 /\ rb.len = 3

----------------------------------------------------------------------------
(* C14 *)

\* The peers agree with rb: each has returned what rb returned and holds the
\* same offset and the same length.
PeersAgree ==
    \A e \in DOMAIN peers :
        /\ peers[e].call.fault = "none"
        /\ peers[e].call.op = call.op
        /\ peers[e].call.ret = call.ret
        /\ peers[e].rb.off = rb.index
        /\ peers[e].rb.len = rb.len

\* The part of C14 that holds: whenever the call on the masking buffer has
\* returned, the three engines agree.
LockstepWhenCompleted == Completed => PeersAgree

\* C14: for a power of two n, a masking buffer, a subtracting buffer and a
\* sparse-masking buffer with cap = n over n slots, given the same calls,
\* return the same result at every step and hold the same offset and the
\* same length after every step.
C14_EnginesAgree ==
    /\ call.fault = "none"
    /\ PeersAgree

----------------------------------------------------------------------------
(* C15 *)

Returned == test.pc = "returned"

\* v is 1, 2, 4, 8, ...
PowerOfTwo(v) == \E k \in 0 .. WordBits : v = 2 ^ k

\* C15: NonZeroCapacity::try_from(v) succeeds exactly when v is not 0 and
\* otherwise yields NonZeroCapacityError; PowerOfTwoCapacity::try_from(v) and
\* MaskingCapacity::try_from(v) succeed exactly when v is a power of two and
\* otherwise yield PowerOfTwoCapacityError; the capacity made from an accepted
\* v converts back to exactly v.
C15_TryFrom ==
    Returned =>
        /\ call.op = "NonZeroCapacity::try_from" =>
            /\ call.ret.ok <=> call.item # 0
            /\ ~call.ret.ok => call.ret.err = "NonZeroCapacityError"
            /\ call.ret.ok => NonZeroCapacityGet(call.ret.val) = call.item
        /\ call.op = "PowerOfTwoCapacity::try_from" =>
            /\ call.ret.ok <=> PowerOfTwo(call.item)
            /\ ~call.ret.ok => call.ret.err = "PowerOfTwoCapacityError"
            /\ call.ret.ok => PowerOfTwoCapacityGet(call.ret.val) = call.item
        /\ call.op = "MaskingCapacity::try_from" =>
            /\ call.ret.ok <=> PowerOfTwo(call.item)
            /\ ~call.ret.ok => call.ret.err = "PowerOfTwoCapacityError"
            /\ call.ret.ok => MaskingCapacityGet(call.ret.val) = call.item

\* MaskingCapacity::try_from(8) has returned a capacity that holds the mask 7
\* and converts back to 8.
C15_Witness ==
    /\ Returned /\ call.op = "MaskingCapacity::try_from" /\ call.item = 8
    /\ call.ret.ok /\ call.ret.val.inner = 7
    /\ MaskingCapacityGet(call.ret.val) = 8

----------------------------------------------------------------------------
(* C16 *)

\* C16: sparse-masking with_storage(cap, storage) panics exactly when cap is
\* greater than the capacity of the storage; otherwise, cap equal to the
\* capacity of the storage included, it returns a buffer with offset 0,
\* length 0 and capacity() equal to cap as asked for, over all the slots of
\* the storage.
C16_WithStorage ==
    (Returned /\ call.op = "with_storage") =>
        /\ call.fault \in {"none", "panic"}
        /\ call.fault = "panic" <=> call.item.capacity > call.item.storage
        /\ call.fault = "panic" => rb = NoBuffer
        /\ call.fault = "none" =>
            /\ rb.off = 0 /\ rb.len = 0
            /\ SparseCapacityOf(rb) = call.item.capacity
            /\ StorageLen(rb) = call.item.storage
            /\ SparseIsEmpty(rb)

\* with_storage has built a buffer of capacity 8 over a storage of 8 slots.
C16_Witness ==
    /\ Returned /\ call.op = "with_storage" /\ call.fault = "none"
    /\ call.item.capacity = 8 /\ call.item.storage = 8
    /\ rb # NoBuffer /\ SparseCapacityOf(rb) = 8 /\ rb.off = 0 /\ rb.len = 0

----------------------------------------------------------------------------
(* C17 *)

\* C17: the MaskingCapacity made from a power of two value holds the mask
\* value - 1, and for every x a usize can hold, mask & x is at least 0, less
\* than value, and equal to x mod value; so it is for x = offset + length and
\* for x = offset + 1.
C17_MaskIsModulo ==
    (Returned /\ call.op = "mask") =>
        LET value == call.item.value
            x == call.item.x
        IN  /\ MaskingCapacityMask(MaskingCapacityTryFrom(value).val) = value - 1
            /\ call.fault = "none" /\ call.ret # None
            /\ 0 <= call.ret[1] /\ call.ret[1] < value
            /\ call.ret[1] = x % value

\* With the capacity 8, the index 13 has been masked to 5.
C17_Witness ==
    /\ Returned /\ call.op = "mask"
    /\ call.item.value = 8 /\ call.item.x = 13
    /\ call.ret = Some(5)

----------------------------------------------------------------------------
(* C18 *)

Dropped == test.pc = "dropped"

\* C18: when a buffer of any engine is dropped while it holds elements, every
\* one of them is dropped with it: each slot of its window has been dropped,
\* and no slot is left holding an element that was neither returned to the
\* caller nor dropped. (For an element type without drop glue there is
\* nothing to run, so the elements that have it are the ones looked at.)
C18_DropReleasesElements ==
    (Dropped /\ needsDrop) =>
        /\ \A p \in Window(rb) : rb.storage.inner[p].st = "dropped"
        /\ LiveSlots(rb) = {}

----------------------------------------------------------------------------
(* C19 *)

\* The part of C19 about allocation: a heap storage for elements of non-zero
\* size holds the one block that was ever handed out, a heap storage for
\* zero-sized elements holds a dangling pointer and no block was handed out,
\* and no call allocates again.
AllocatesOnce ==
    rb # NoBuffer =>
        /\ (test.pc = "off" /\ call.op = "new" /\ call.item.kind = "alloc") =>
            rb.storage.pointer = IF call.item.size > 0 THEN "block" ELSE "dangling"
        /\ rb.storage.pointer = "block" => heap.allocs = 1
        /\ rb.storage.pointer \in {"dangling", "inline"} => heap.allocs = 0

\* C19: a heap storage for elements of non-zero size allocates exactly one
\* block, at construction, never allocates again, and frees that block
\* exactly once, when it is destroyed (not before); for elements of size zero
\* it allocates nothing and frees nothing.
C19_HeapBlockLifecycle ==
    /\ AllocatesOnce
    /\ rb # NoBuffer =>
        /\ rb.storage.pointer = "block" => heap.frees = IF Dropped THEN 1 ELSE 0
        /\ rb.storage.pointer = "dangling" => heap.frees = 0

----------------------------------------------------------------------------
(* C20 *)

\* The part of C20 that holds: whenever off + len fits a usize, and so for
\* every capacity up to half the range of usize, the position is
\* (off + len) mod cap; the advanced offset is (off + 1) mod cap throughout.
WraparoundWithinWord ==
    (Returned /\ call.op = "pos") =>
        /\ ~AddOverflows(call.item.off, call.item.len) =>
            /\ call.fault = "none"
            /\ call.ret.pos = (call.item.off + call.item.len) % call.item.cap
        /\ call.fault = "none" =>
            call.ret.advance = (call.item.off + 1) % call.item.cap
        /\ 2 * call.item.cap <= UsizeMax + 1 =>
            ~AddOverflows(call.item.off, call.item.len)

\* C20: for every non-zero capacity cap, every offset in 0 .. cap - 1 and
\* every length in 0 .. cap, the position enqueue computes for its write is
\* (offset + length) mod cap, and the offset it and dequeue advance to is
\* (offset + 1) mod cap.
C20_SubtractingWraparound ==
    (Returned /\ call.op = "pos") =>
        /\ call.fault = "none"
        /\ call.ret.pos = (call.item.off + call.item.len) % call.item.cap
        /\ call.ret.advance = (call.item.off + 1) % call.item.cap

----------------------------------------------------------------------------
(* C21 *)

\* The slots no call has written or read so far. A slot that was written
\* holds an element or one moved out, and a replace writes the slot it reads,
\* so these are the slots still uninitialised.
Untouched(b) == {p \in DOMAIN b.storage.inner : b.storage.inner[p].st = "uninit"}

\* C21: in a sparse-masking buffer with cap < P some slots of the storage are
\* permanently unused: there is a slot that no sequence of enqueue and
\* dequeue calls ever writes or reads.
C21_SlackNeverUsed ==
    (engine = "sparse" /\ BuiltFor(rb) < StorageLen(rb)) => Untouched(rb) # {}

\* C21 as amended: in a sparse-masking buffer with cap < P at least P - cap
\* slots of the storage are outside the window of the elements held, in
\* every reachable state; which slots these are changes as the offset
\* advances, so no slot stays unused for good.
C21_SlackAtEveryMoment ==
    (engine = "sparse" /\ BuiltFor(rb) < StorageLen(rb)) =>
        /\ Cardinality(DOMAIN rb.storage.inner \ Window(rb))
              >= StorageLen(rb) - BuiltFor(rb)
        /\ Window(rb) \subseteq DOMAIN rb.storage.inner \ Untouched(rb)

\* A sparse-masking buffer of capacity 2 over 4 slots holds two elements in
\* slots 3 and 0; slots 1 and 2 are slack now, and every slot of the storage
\* has been written.
C21_Witness ==
    /\ engine = "sparse" /\ BuiltFor(rb) = 2 /\ StorageLen(rb) = 4
    /\ rb.off = 3 /\ rb.len = 2 /\ Window(rb) = {3, 0}
    /\ Window(rb) \subseteq LiveSlots(rb)
    /\ Untouched(rb) = {}
    /\ rb.storage.inner[1].st = "moved" /\ rb.storage.inner[2].st = "moved"

----------------------------------------------------------------------------
(* C22 *)

\* The part of C22 that holds: in the subtracting and the sparse-masking
\* engine an enqueue into a buffer that is not full returns nothing, reads
\* nothing, drops nothing and leaves the item in the slot.
WriteOnlyOutsideMasking ==
    [][(engine # "masking" /\ call'.op = "enqueue" /\ ~IsFull(rb)) =>
        /\ call'.fault = "none" /\ call'.ret = None
        /\ call'.read = "none" /\ call'.drop = "none"
        /\ rb'.storage.inner[call'.pos] = [st |-> "live", val |-> call'.item]]_vars

\* C22: in every engine an enqueue into a buffer that is not full stores the
\* item in its slot and neither reads, returns nor drops what the slot held
\* (which is uninitialised memory or an element already moved out), so an
\* element that dequeue has returned is not dropped again by a later enqueue.
C22_NotFullOnlyWrites ==
    [][(call'.op = "enqueue" /\ ~IsFull(rb)) =>
        /\ call'.fault = "none" /\ call'.ret = None
        /\ call'.read = "none" /\ call'.drop = "none"
        /\ rb.storage.inner[call'.pos].st \in {"uninit", "moved"}
        /\ rb'.storage.inner[call'.pos] = [st |-> "live", val |-> call'.item]]_vars

----------------------------------------------------------------------------
(* C23 *)

\* The sums the next call on b would compute fit a usize: off + len, which
\* enqueue adds when b is not full, and off + 1, which enqueue adds when b is
\* full and dequeue when b is not empty.
SumsFit(b) ==
    /\ b.len # SubtractingCapacityOf(b) => ~AddOverflows(b.off, b.len)
    /\ ~AddOverflows(b.off, 1)

\* The part of C23 that holds: for every capacity up to half the range of
\* usize no sum overflows, and off + 1 overflows for no capacity.
SumsFitUpToHalf ==
    /\ 2 * SubtractingCapacityOf(rb) <= UsizeMax + 1 => SumsFit(rb)
    /\ ~AddOverflows(rb.off, 1)

\* C23: for every non-zero capacity a usize can hold and every reachable
\* state of a subtracting buffer of that capacity, offset + length and
\* offset + 1 as enqueue and dequeue compute them do not exceed the largest
\* usize, so no call overflows.
C23_NoOverflow ==
    /\ SumsFit(rb)
    /\ call.fault # "overflow"

----------------------------------------------------------------------------
(* C24 *)

\* While the loop runs it has taken test.i of the test.n elements the buffer
\* held when it began, each read from a slot holding an element, and the
\* rest are still in the buffer; when it has ended it has taken all of them,
\* no more than capacity(), the last dequeue returned nothing and the buffer
\* is empty.
DrainCounts ==
    /\ test.pc \in {"while", "done"} =>
        /\ Completed
        /\ test.i + Length(rb) = test.n /\ Len(test.seen) = test.i
        /\ test.n <= CapacityOf(rb)
    /\ (test.pc = "while" /\ test.i > 0) =>
        call.op = "dequeue" /\ call.ret # None /\ call.read = "live"
    /\ test.pc = "done" =>
        /\ test.i = test.n /\ IsEmpty(rb)
        /\ call.op = "dequeue" /\ call.ret = None

\* C24: from any reachable state of any engine with length k, dequeue called
\* again and again with no enqueue in between returns an element exactly k
\* times and then returns nothing, leaving the buffer empty: the loop
\* `while let Some(_) = dequeue()` always ends, after at most capacity()
\* iterations.
C24_DrainingTerminates ==
    /\ []DrainCounts
    /\ (test.pc = "while") ~> (test.pc = "done")

\* A loop begun on a full sparse-masking buffer of capacity 3 over 4 slots,
\* whose offset had wrapped, has ended after taking three elements.
C24_Witness ==
    /\ engine = "sparse" /\ BuiltFor(rb) = 3 /\ StorageLen(rb) = 4
    /\ test.pc = "done" /\ test.n = 3 /\ test.i = 3 /\ Len(test.seen) = 3
    /\ call.op = "dequeue" /\ call.ret = None
    /\ IsEmpty(rb) /\ Offset(rb) = 1

----------------------------------------------------------------------------
(* C25 *)

\* C25: after any call to dequeue on a subtracting or a sparse-masking
\* buffer, whether it returned an element or nothing, the call has returned
\* and is_full() is false.
C25_NotFullAfterDequeue ==
    (engine \in {"subtracting", "sparse"} /\ call.op = "dequeue") =>
        Completed /\ ~IsFull(rb)

\* A sparse-masking buffer of capacity 3 over 4 slots that was full, with a
\* wrapped offset, has returned an element from dequeue.
C25_Witness ==
    /\ engine = "sparse" /\ BuiltFor(rb) = 3 /\ StorageLen(rb) = 4
    /\ call.op = "dequeue" /\ call.ret # None /\ call.pos = 3
    /\ Length(rb) = 2 /\ Offset(rb) = 0 /\ ~IsFull(rb)

----------------------------------------------------------------------------
(* C26 *)

\* A dequeue of a subtracting or a sparse-masking buffer that is not empty
\* returns and removes the oldest element: the head of the queue of what was
\* enqueued, read from a slot that holds it; the rest stays, in order.
DequeuesOldest ==
    /\ call'.fault = "none"
    /\ call'.ret = Some(Head(fifo)) /\ call'.read = "live"
    /\ Contents(rb) = fifo /\ Contents(rb') = Tail(fifo)

====
